---- MODULE Spec2Model ----
(***************************************************************************)
(* gitlab-mirror-maker: the `list` and `mirror` commands of                *)
(* mirrormaker/mirrormaker.py with the GitHub and GitLab helpers of        *)
(* mirrormaker/github.py and mirrormaker/gitlab.py.                        *)
(*                                                                         *)
(* Python strings are sequences of one-character strings, so that          *)
(* endswith, replace and concatenation are computed, not assumed.          *)
(***************************************************************************)
EXTENDS Integers, Sequences, FiniteSets, TLC

VARIABLES
    gitlabRepos,    \* GitLab: the user's public projects, as the API lists them
    githubRepos,    \* GitHub: the organization's repositories, as the API lists them
    mirrors,        \* GitLab: project id -> its remote mirrors, as the API lists them
    commits,        \* GitLab: project id -> time of the most recent commit
    pc,             \* position of the process
    cmd,            \* the command being run
    opts,           \* the options of the command
    target_forks,   \* github.target_forks, the module global
    gitlab_repos,   \* local of the command
    github_repos,   \* local of the command
    statuses,       \* local of the command: statuses[i] belongs to gitlab_repos[i]
    summary,        \* the rows print_summary_table echoed
    idx,            \* perform_actions: position of the loop over statuses
    calls,          \* the calls perform_actions made, in order, with their outcome
    err,            \* the exception that ended the run
    created,        \* ids of the projects whose repository an earlier run created
    helper          \* a direct call of a helper function: arguments and return value

platform == <<gitlabRepos, githubRepos, mirrors, commits>>
locals == <<cmd, opts, target_forks, gitlab_repos, github_repos, statuses, summary>>
vars == <<gitlabRepos, githubRepos, mirrors, commits, pc, cmd, opts, target_forks,
          gitlab_repos, github_repos, statuses, summary, idx, calls, err, created,
          helper>>

----------------------------------------------------------------------------
\* Bounds of the model

MaxTime == 2
MaxMirrors == 1
MaxGithubRepos == 2

----------------------------------------------------------------------------
\* Python values

\* None where a str is expected: no str has a several-character element
NoneStr == <<"None">>

\* None where a datetime is expected; datetimes are naturals
NoneTime == -1

\* Optional[bool] is one of "True", "False", "None"
OptBool(b) == IF b THEN "True" ELSE "False"

\* truth value of an Optional[bool]
Truthy(x) == x = "True"

\* truth value of an Optional[str]
StrTruthy(s) == s # NoneStr /\ s # <<>>

endswith(s, suffix) ==
    /\ Len(suffix) <= Len(s)
    /\ SubSeq(s, Len(s) - Len(suffix) + 1, Len(s)) = suffix

\* str.replace for one-character old and new
replace(s, old, new) == [i \in 1..Len(s) |-> IF s[i] = old THEN new ELSE s[i]]

\* "x in s" for a one-character x
contains(s, c) == \E i \in 1..Len(s) : s[i] = c

\* what an f-string makes of a value
format(x) == IF x = NoneStr THEN <<"N", "o", "n", "e">> ELSE x

\* code point order of the characters that occur in project paths
CodePoints == <<"-", "/", "_", "a", "b", "c", "d", "g", "x", "z">>

ord(c) == CHOOSE i \in 1..Len(CodePoints) : CodePoints[i] = c

\* s < t for two str
StrLess(s, t) ==
    \E k \in 1..(Len(s) + 1) :
        /\ k <= Len(t)
        /\ \A j \in 1..(k - 1) : s[j] = t[j]
        /\ (k = Len(s) + 1 \/ ord(s[k]) < ord(t[k]))

\* ISO 8601 text of a time, and dateutil's isoparse of such a text
Digits == <<"0", "1", "2", "3", "4", "5", "6", "7", "8", "9">>

isoformat(n) == <<"T", Digits[n + 1]>>

isoparse(s) == CHOOSE n \in 0..9 : isoformat(n) = s

\* isoparse(None) raises TypeError
isoparse_raises(s) == s = NoneStr

SeqsUpTo(S, n) == UNION {[1..k -> S] : k \in 0..n}

----------------------------------------------------------------------------
\* Text constants

Slash == <<"/">>

DotGit == <<".", "g", "i", "t">>

\* the organization github.py names
Org == <<"r", "a", "d", "i", "o", "s", "o", "u", "n", "d", "-", "c", "o", "m">>

\* the GitLab user the token belongs to
User == <<"g">>

MirrorSuffix == <<" ", "[", "m", "i", "r", "r", "o", "r", "]">>

MirrorOf == <<"m", "i", "r", "r", "o", "r", " ", "o", "f", " ">>

Separator == <<" ", "|", " ">>

----------------------------------------------------------------------------
\* GitLab projects

RepoA ==
    [id |-> 1, path_with_namespace |-> <<"g", "/", "a">>, path |-> <<"a">>,
     description |-> <<"d">>, web_url |-> <<"w", ":", "g", "/", "a">>]

RepoB ==
    [id |-> 2, path_with_namespace |-> <<"g", "/", "b">>, path |-> <<"b">>,
     description |-> NoneStr, web_url |-> <<"w", ":", "g", "/", "b">>]

Ids == {RepoA.id, RepoB.id}

----------------------------------------------------------------------------
\* mirrormaker.py: the description template

get_project_url(gitlab_repo) == gitlab_repo.web_url

description_template(source_description, source_url) ==
    (IF StrTruthy(source_description) THEN source_description \o Separator ELSE <<>>)
        \o MirrorOf \o source_url

build_description(gitlab_repo) ==
    description_template(gitlab_repo.description, get_project_url(gitlab_repo))

----------------------------------------------------------------------------
\* github.py

\* `None` where a repository is expected
NoRepo == [full_name |-> NoneStr, description |-> NoneStr, fork |-> FALSE]

\* get_repos: the organization's repositories, forks only when target_forks is set
get_repos(org_repos, forks) ==
    SelectSeq(org_repos, LAMBDA x : ~x.fork \/ forks)

repo_exists(repos, repo_slug) ==
    \E i \in 1..Len(repos) : repos[i].full_name = repo_slug

get_repo_by_slug(repos, repo_slug) ==
    LET l == SelectSeq(repos, LAMBDA repo : endswith(repo.full_name, Slash \o repo_slug))
    IN  IF Len(l) > 0 THEN l[1] ELSE NoRepo

\* the repository create_repo asks the organization to create
create_repo_data(gitlab_repo) ==
    [full_name |-> Org \o Slash \o replace(gitlab_repo.path_with_namespace, "/", "_"),
     description |-> format(gitlab_repo.description) \o MirrorSuffix,
     fork |-> FALSE]

\* GitHub refuses a name the organization already has
create_repo_refused(org_repos, gitlab_repo) ==
    repo_exists(org_repos, create_repo_data(gitlab_repo).full_name)

\* set_description: github_repo.edit(description=...) on the platform
set_description(org_repos, github_repo, description) ==
    [i \in 1..Len(org_repos) |->
        IF org_repos[i].full_name = github_repo.full_name
        THEN [org_repos[i] EXCEPT !.description = description]
        ELSE org_repos[i]]

----------------------------------------------------------------------------
\* gitlab.py

\* `None` where a mirror is expected
NoMirror ==
    [url |-> NoneStr, enabled |-> FALSE, last_successful_update_at |-> NoneStr,
     last_error |-> NoneStr]

mirror_target_exists(repos, ms) ==
    \E m \in 1..Len(ms) :
        \E r \in 1..Len(repos) :
            /\ StrTruthy(ms[m].url)
            /\ endswith(ms[m].url, repos[r].full_name \o DotGit)

\* the mirror whose URL ends with /<full_name>.git for a repository of the list; the
\* first repository in list order wins, then the first mirror
get_github_mirror(repos, ms) ==
    LET hit(r, m) ==
            /\ StrTruthy(ms[m].url)
            /\ endswith(ms[m].url, Slash \o repos[r].full_name \o DotGit)
        rs == {r \in 1..Len(repos) : \E m \in 1..Len(ms) : hit(r, m)}
    IN  IF rs = {}
        THEN NoMirror
        ELSE LET r == CHOOSE x \in rs : \A y \in rs : x <= y
                 m == CHOOSE x \in 1..Len(ms) :
                        hit(r, x) /\ \A y \in 1..Len(ms) : hit(r, y) => x <= y
             IN  ms[m]

\* the time of the most recent commit, None for a project without commits
get_most_recent_commit_time(commit_times, gitlab_repo) == commit_times[gitlab_repo.id]

\* get_repo_by_shorthand: the path the project is asked for by
shorthand_path(shorthand) ==
    IF ~contains(shorthand, "/") THEN User \o Slash \o shorthand ELSE shorthand

\* the number of positional parameters create_mirror requires
create_mirror_params == 3

GithubUrl == <<"h", ":">>

GithubHost == <<"@", "g", "h", "/">>

\* the mirror create_mirror posts
create_mirror_data(gitlab_repo, github_token, github_user) ==
    [url |-> GithubUrl \o github_user \o <<":">> \o github_token \o GithubHost
                \o github_user \o Slash \o gitlab_repo.path \o DotGit,
     enabled |-> TRUE, last_successful_update_at |-> NoneStr, last_error |-> NoneStr]

----------------------------------------------------------------------------
\* mirrormaker.py: MirrorStatus

MirrorStatus ==
    [github_repo |-> NoRepo,
     has_mirror_configured |-> FALSE,
     has_mirror_enabled |-> FALSE,
     last_mirror_push_at |-> NoneTime,
     last_mirror_push_succeeded |-> "None",
     last_source_commit_at |-> NoneTime,
     has_other_mirror |-> FALSE,
     description_matches_template |-> "None",
     description_is_empty |-> "None"]

has_github_repo(status) == status.github_repo # NoRepo

should_have_mirror(status) == has_github_repo(status) \/ status.has_mirror_configured

\* an is_up_to_date that takes equal timestamps for up to date
is_up_to_date_or_equal(status) ==
    IF status.last_mirror_push_at = NoneTime \/ status.last_source_commit_at = NoneTime
    THEN "None"
    ELSE OptBool(status.last_source_commit_at <= status.last_mirror_push_at)

is_up_to_date(status) ==
    IF status.last_mirror_push_at = NoneTime \/ status.last_source_commit_at = NoneTime
    THEN "None"
    ELSE OptBool(status.last_source_commit_at < status.last_mirror_push_at)

is_active_without_issues(status) ==
    /\ has_github_repo(status)
    /\ Truthy(is_up_to_date(status))
    /\ status.has_mirror_configured
    /\ status.has_mirror_enabled
    /\ Truthy(is_up_to_date(status))
    /\ Truthy(status.last_mirror_push_succeeded)

----------------------------------------------------------------------------
\* mirrormaker.py: check_mirror_status

\* the body of check_mirror_status once the mirror and the repository are looked up
mirror_status(gitlab_repo, commit_time, ms, github_mirror, github_repo) ==
    LET s0 == [MirrorStatus EXCEPT !.last_source_commit_at = commit_time]
        s1 == IF github_mirror # NoMirror
              THEN [s0 EXCEPT
                      !.has_mirror_configured = TRUE,
                      !.has_mirror_enabled = github_mirror.enabled,
                      !.last_mirror_push_at =
                          isoparse(github_mirror.last_successful_update_at),
                      !.last_mirror_push_succeeded =
                          OptBool(~StrTruthy(github_mirror.last_error))]
              ELSE IF Len(ms) > 0
                   THEN [s0 EXCEPT !.has_other_mirror = TRUE]
                   ELSE s0
        s2 == [s1 EXCEPT !.github_repo = github_repo]
    IN  IF github_repo # NoRepo
        THEN [s2 EXCEPT
                !.description_matches_template =
                    OptBool(github_repo.description = build_description(gitlab_repo)),
                !.description_is_empty = OptBool(~StrTruthy(github_repo.description))]
        ELSE s2

\* the slug check_mirror_status looks the GitHub repository up by
status_slug(gitlab_repo) == gitlab_repo.path_with_namespace

check_mirror_status(gitlab_repo, repos, ms, commit_times) ==
    mirror_status(gitlab_repo,
                  get_most_recent_commit_time(commit_times, gitlab_repo),
                  ms,
                  get_github_mirror(repos, ms),
                  get_repo_by_slug(repos, status_slug(gitlab_repo)))

\* isoparse raises on a mirror that has never pushed
check_mirror_status_raises(repos, ms) ==
    /\ get_github_mirror(repos, ms) # NoMirror
    /\ isoparse_raises(get_github_mirror(repos, ms).last_successful_update_at)

----------------------------------------------------------------------------
\* mirrormaker.py: print_summary_table

\* a checklist that looks at the last push before the timestamps
summary_row_push_first(gitlab_repo, status) ==
    LET row(m, d) == [repo |-> gitlab_repo.path_with_namespace, mirror |-> m, details |-> d]
    IN  IF is_active_without_issues(status)
        THEN IF ~Truthy(status.description_matches_template)
             THEN row("active", "description doesn't match template")
             ELSE row("active", "")
        ELSE IF ~should_have_mirror(status)
        THEN IF status.has_other_mirror
             THEN row("-", "has other mirror(s)")
             ELSE row("-", "")
        ELSE IF ~status.has_mirror_configured
        THEN row("issues", "GitHub repo exists but no mirror configured")
        ELSE IF ~status.has_mirror_enabled
        THEN row("issues", "mirror disabled")
        ELSE IF ~Truthy(status.last_mirror_push_succeeded)
        THEN row("issues", "errors on last push attempt")
        ELSE IF ~Truthy(is_up_to_date(status))
        THEN row("issues", "mirror not up to date")
        ELSE row("issues", "unknown issue")

summary_row(gitlab_repo, status) ==
    LET row(m, d) == [repo |-> gitlab_repo.path_with_namespace, mirror |-> m, details |-> d]
    IN  IF is_active_without_issues(status)
        THEN IF ~Truthy(status.description_matches_template)
             THEN row("active", "description doesn't match template")
             ELSE row("active", "")
        ELSE IF ~should_have_mirror(status)
        THEN IF status.has_other_mirror
             THEN row("-", "has other mirror(s)")
             ELSE row("-", "")
        ELSE IF ~status.has_mirror_configured
        THEN row("issues", "GitHub repo exists but no mirror configured")
        ELSE IF ~status.has_mirror_enabled
        THEN row("issues", "mirror disabled")
        ELSE IF ~Truthy(is_up_to_date(status))
        THEN row("issues", "mirror not up to date")
        ELSE IF ~Truthy(status.last_mirror_push_succeeded)
        THEN row("issues", "errors on last push attempt")
        ELSE row("issues", "unknown issue")

print_summary_table(repos, sts) ==
    SortSeq([i \in 1..Len(sts) |-> summary_row(repos[i], sts[i])],
            LAMBDA a, b : StrLess(a.repo, b.repo))

----------------------------------------------------------------------------
\* mirrormaker.py: perform_actions, the three conditions of the loop body

needs_repo(status) == ~has_github_repo(status)

needs_mirror(status) == ~status.has_mirror_configured

\* a condition that overwrites every description that does not match
needs_description_any(status, force_update_metadata) ==
    ~Truthy(status.description_matches_template)

needs_description(status, force_update_metadata) ==
    /\ ~Truthy(status.description_matches_template)
    /\ (force_update_metadata \/ Truthy(status.description_is_empty))

----------------------------------------------------------------------------
\* mirrormaker.py: the commands up to the summary

NoOpts ==
    [target_forks |-> FALSE, force_update_metadata |-> FALSE, dry_run |-> FALSE,
     repo |-> NoneStr]

\* the github_forks argument the commands pass to _get_repos
github_forks(option_target_forks) == TRUE

\* _get_repos: what it raises, whether it returns None, and the two lists
get_repos_result(forks, gitlab_repo) ==
    LET found == SelectSeq(gitlabRepos,
                           LAMBDA p : p.path_with_namespace = shorthand_path(gitlab_repo))
        out(raises, none, gl) ==
            [raises |-> raises, none |-> none, gitlab_repos |-> gl,
             github_repos |-> IF raises = "None" /\ ~none
                              THEN get_repos(githubRepos, forks) ELSE <<>>]
    IN  IF StrTruthy(gitlab_repo)
        THEN IF Len(found) = 0
             THEN out("SystemExit", FALSE, <<>>)
             ELSE out("None", FALSE, <<found[1]>>)
        ELSE IF Len(gitlabRepos) = 0
             THEN out("None", TRUE, <<>>)
             ELSE out("None", FALSE, gitlabRepos)

get_mirror_statuses(gl, gh) ==
    [i \in 1..Len(gl) |-> check_mirror_status(gl[i], gh, mirrors[gl[i].id], commits)]

\* _get_repos, the unpacking of its result, and get_mirror_statuses
resolve(forks, gitlab_repo) ==
    LET r == get_repos_result(forks, gitlab_repo)
        fail(e) == [err |-> e, gitlab_repos |-> <<>>, github_repos |-> <<>>,
                    statuses |-> <<>>]
    IN  IF r.raises # "None"
        THEN fail(r.raises)
        ELSE IF r.none
        THEN fail("TypeError")
        ELSE IF \E i \in 1..Len(r.gitlab_repos) :
                    check_mirror_status_raises(r.github_repos,
                                               mirrors[r.gitlab_repos[i].id])
        THEN fail("TypeError")
        ELSE [err |-> "None", gitlab_repos |-> r.gitlab_repos,
              github_repos |-> r.github_repos,
              statuses |-> get_mirror_statuses(r.gitlab_repos, r.github_repos)]

RepoArgs == {NoneStr, <<"a">>, <<"g", "/", "b">>, <<"z">>}

Command(c, o) ==
    LET r == resolve(github_forks(o.target_forks), o.repo)
    IN  /\ pc = "idle"
        /\ cmd' = c
        /\ opts' = o
        /\ target_forks' = github_forks(o.target_forks)
        /\ gitlab_repos' = r.gitlab_repos
        /\ github_repos' = r.github_repos
        /\ statuses' = r.statuses
        /\ err' = r.err
        /\ pc' = IF r.err = "None" THEN "summary" ELSE "error"
        /\ UNCHANGED <<platform, summary, idx, calls, created, helper>>

ListCmd ==
    /\ pc = "idle"
    /\ \E repo \in RepoArgs : Command("list", [NoOpts EXCEPT !.repo = repo])

MirrorCmd ==
    /\ pc = "idle"
    /\ \E tf \in BOOLEAN, force \in BOOLEAN, dry \in BOOLEAN, repo \in RepoArgs :
          Command("mirror",
                  [target_forks |-> tf, force_update_metadata |-> force,
                   dry_run |-> dry, repo |-> repo])

\* a request of the lookups fails: raise SystemExit(e)
LookupFails ==
    /\ pc = "idle"
    /\ \E c \in {"list", "mirror"} : cmd' = c
    /\ target_forks' = github_forks(FALSE)
    /\ pc' = "error"
    /\ err' = "SystemExit"
    /\ UNCHANGED <<platform, opts, gitlab_repos, github_repos, statuses, summary, idx,
                   calls, created, helper>>

PrintSummaryTable ==
    /\ pc = "summary"
    /\ summary' = print_summary_table(gitlab_repos, statuses)
    /\ pc' = IF cmd = "mirror" THEN "perform" ELSE "done"
    /\ UNCHANGED <<platform, cmd, opts, target_forks, gitlab_repos, github_repos,
                   statuses, idx, calls, err, created, helper>>

----------------------------------------------------------------------------
\* mirrormaker.py: perform_actions

Call(op, gitlab_repo, outcome, arg) ==
    [op |-> op, repo |-> gitlab_repo.id, outcome |-> outcome, arg |-> arg]

\* a perform_actions that does not look at dry_run
returns_never(dry_run) == FALSE

\* `if dry_run: ... return`
returns_at_once(dry_run) == dry_run

PerformActions ==
    /\ pc = "perform"
    /\ IF returns_at_once(opts.dry_run) \/ Len(statuses) = 0
       THEN pc' = "done" /\ idx' = idx
       ELSE pc' = "repo" /\ idx' = 1
    /\ UNCHANGED <<platform, locals, calls, err, created, helper>>

\* a loop body that catches the exception of github.create_repo and goes on
after_create_repo_swallowed(ok) == "mirror"

\* a loop body that calls github.create_repo again when it raised
after_create_repo_retried(ok) == IF ok THEN "mirror" ELSE "repo"

\* where the loop body goes after github.create_repo returned (ok) or raised
after_create_repo(ok) == IF ok THEN "mirror" ELSE "error"

\* `if not status.has_github_repo: github.create_repo(gitlab_repo)`
RepoStep ==
    /\ pc = "repo"
    /\ \E answer \in BOOLEAN :
        LET repo == gitlab_repos[idx]
            ok == answer /\ ~create_repo_refused(githubRepos, repo)
        IN  IF needs_repo(statuses[idx])
            THEN /\ calls' = Append(calls, Call("create_repo", repo,
                                                IF ok THEN "ok" ELSE "error", <<>>))
                 /\ githubRepos' = IF ok THEN Append(githubRepos, create_repo_data(repo))
                                   ELSE githubRepos
                 /\ pc' = after_create_repo(ok)
                 /\ err' = IF after_create_repo(ok) = "error" THEN "GithubException"
                           ELSE err
            ELSE /\ pc' = "mirror"
                 /\ UNCHANGED <<githubRepos, calls, err>>
    /\ UNCHANGED <<gitlabRepos, mirrors, commits, locals, idx, created, helper>>

\* the number of arguments perform_actions calls gitlab.create_mirror with
create_mirror_args == 1

\* the token and the user of github.py
Token == <<"t">>

\* `if not status.has_mirror_configured: gitlab.create_mirror(gitlab_repo)`
MirrorStep ==
    /\ pc = "mirror"
    /\ LET repo == gitlab_repos[idx]
       IN  IF needs_mirror(statuses[idx])
           THEN IF create_mirror_args # create_mirror_params
                THEN \* TypeError: missing required positional arguments
                     /\ calls' = Append(calls, Call("create_mirror", repo, "TypeError", <<>>))
                     /\ pc' = "error"
                     /\ err' = "TypeError"
                     /\ UNCHANGED mirrors
                ELSE \* the call binds (it does not: 1 argument for 3 parameters)
                     /\ calls' = Append(calls, Call("create_mirror", repo, "ok", <<>>))
                     /\ mirrors' = [mirrors EXCEPT ![repo.id] =
                                       Append(@, create_mirror_data(repo, Token, Org))]
                     /\ pc' = "desc"
                     /\ err' = err
           ELSE /\ pc' = "desc"
                /\ UNCHANGED <<mirrors, calls, err>>
    /\ UNCHANGED <<gitlabRepos, githubRepos, commits, locals, idx, created, helper>>

\* the loop goes to the next status, or perform_actions returns
Advance ==
    IF idx < Len(statuses)
    THEN pc' = "repo" /\ idx' = idx + 1
    ELSE pc' = "done" /\ idx' = idx

\* `if not status.description_matches_template and (...): github.set_description(...)`
DescStep ==
    /\ pc = "desc"
    /\ \E answer \in BOOLEAN :
        LET repo == gitlab_repos[idx]
            status == statuses[idx]
            text == build_description(repo)
        IN  IF needs_description(status, opts.force_update_metadata)
            THEN IF status.github_repo = NoRepo
                 THEN \* AttributeError: None has no attribute edit
                      /\ calls' = Append(calls, Call("set_description", repo,
                                                     "AttributeError", text))
                      /\ pc' = "error"
                      /\ err' = "AttributeError"
                      /\ UNCHANGED <<githubRepos, idx>>
                 ELSE IF answer
                 THEN /\ calls' = Append(calls, Call("set_description", repo, "ok", text))
                      /\ githubRepos' = set_description(githubRepos, status.github_repo, text)
                      /\ err' = err
                      /\ Advance
                 ELSE /\ calls' = Append(calls, Call("set_description", repo, "error", text))
                      /\ pc' = "error"
                      /\ err' = "GithubException"
                      /\ UNCHANGED <<githubRepos, idx>>
            ELSE /\ Advance
                 /\ UNCHANGED <<githubRepos, calls, err>>
    /\ UNCHANGED <<gitlabRepos, mirrors, commits, locals, created, helper>>

\* the projects whose repository the calls of a run created
CreatedBy(cs) ==
    {cs[k].repo : k \in {j \in 1..Len(cs) : cs[j].op = "create_repo" /\ cs[j].outcome = "ok"}}

\* the process ends; the next command starts a new one
Exit ==
    /\ pc \in {"done", "error"}
    /\ pc' = "idle"
    /\ cmd' = "none"
    /\ opts' = NoOpts
    /\ target_forks' = FALSE
    /\ gitlab_repos' = <<>>
    /\ github_repos' = <<>>
    /\ statuses' = <<>>
    /\ summary' = <<>>
    /\ idx' = 0
    /\ calls' = <<>>
    /\ err' = "None"
    /\ created' = created \cup CreatedBy(calls)
    /\ UNCHANGED <<platform, helper>>

----------------------------------------------------------------------------
\* direct calls of the helpers, as the tests make them

CallMirrorTargetExists ==
    /\ helper.fn = "mirror_target_exists"
    /\ helper.ret = "None"
    /\ helper' = [helper EXCEPT
                    !.ret = OptBool(mirror_target_exists(helper.github_repos,
                                                         helper.mirrors))]
    /\ UNCHANGED <<platform, pc, locals, idx, calls, err, created>>

CallRepoExists ==
    /\ helper.fn = "repo_exists"
    /\ helper.ret = "None"
    /\ helper' = [helper EXCEPT
                    !.ret = OptBool(repo_exists(helper.github_repos, helper.slug))]
    /\ UNCHANGED <<platform, pc, locals, idx, calls, err, created>>

NoHelper ==
    [fn |-> "none", github_repos |-> <<>>, mirrors |-> <<>>, slug |-> <<>>,
     ret |-> "None"]

----------------------------------------------------------------------------
\* The platforms the commands are run against

GithubRepo(name, description, fork) ==
    [full_name |-> Org \o Slash \o name, description |-> description, fork |-> fork]

GhA == GithubRepo(<<"a">>, build_description(RepoA), FALSE)

GhB == GithubRepo(<<"b">>, build_description(RepoB), FALSE)

GhFork == GithubRepo(<<"c">>, NoneStr, TRUE)

GhEmpty == GithubRepo(<<"z">>, <<>>, FALSE)

GhOther == GithubRepo(<<"x">>, <<"x">>, FALSE)

MirrorUrl(owner, name) ==
    GithubUrl \o owner \o <<":">> \o Token \o GithubHost \o owner \o Slash \o name \o DotGit

Mirror(url, enabled, at, error) ==
    [url |-> url, enabled |-> enabled, last_successful_update_at |-> at,
     last_error |-> error]

MirrorToA == Mirror(MirrorUrl(Org, <<"a">>), TRUE, isoformat(1), NoneStr)

MirrorNeverPushed == Mirror(MirrorUrl(Org, <<"a">>), TRUE, NoneStr, <<"e">>)

MirrorElsewhere == Mirror(MirrorUrl(<<"x">>, <<"z">>), TRUE, isoformat(1), NoneStr)

\* the lists without a repeated element
Distinct(S, n) ==
    {l \in SeqsUpTo(S, n) : \A i, j \in 1..Len(l) : i # j => l[i] # l[j]}

NoRun ==
    /\ cmd = "none"
    /\ opts = NoOpts
    /\ target_forks = FALSE
    /\ gitlab_repos = <<>>
    /\ github_repos = <<>>
    /\ statuses = <<>>
    /\ summary = <<>>
    /\ idx = 0
    /\ calls = <<>>
    /\ err = "None"
    /\ created = {}

Init ==
    /\ gitlabRepos \in {<<>>, <<RepoA>>, <<RepoA, RepoB>>}
    /\ githubRepos \in Distinct({GhA, GhFork}, MaxGithubRepos)
    /\ mirrors \in {[i \in Ids |-> IF i = RepoA.id THEN l ELSE <<>>] :
                        l \in SeqsUpTo({MirrorToA, MirrorNeverPushed, MirrorElsewhere},
                                       MaxMirrors)}
    /\ commits = [i \in Ids |-> IF i = RepoA.id THEN 1 ELSE NoneTime]
    /\ pc = "idle"
    /\ NoRun
    /\ helper = NoHelper

Perform == PerformActions \/ RepoStep \/ MirrorStep \/ DescStep

Next == ListCmd \/ MirrorCmd \/ LookupFails \/ PrintSummaryTable \/ Perform \/ Exit

Spec == Init /\ [][Next]_vars

----------------------------------------------------------------------------
\* perform_actions on every status mapping

\* the statuses a project can have: with or without a repository, with or without
\* a mirror
ActionStatuses(gitlab_repo) ==
    {mirror_status(gitlab_repo, NoneTime, IF m = NoMirror THEN <<>> ELSE <<m>>, m, r) :
        m \in {NoMirror, MirrorToA},
        r \in {NoRepo, GhA, GhB, GhEmpty, GhOther}}

InitActions ==
    /\ gitlabRepos = <<RepoA, RepoB>>
    /\ githubRepos = <<GhA, GhB, GhEmpty, GhOther>>
    /\ mirrors = [i \in Ids |-> <<>>]
    /\ commits = [i \in Ids |-> NoneTime]
    /\ pc = "perform"
    /\ cmd = "mirror"
    /\ \E force \in BOOLEAN, dry \in BOOLEAN :
          opts = [NoOpts EXCEPT !.force_update_metadata = force, !.dry_run = dry]
    /\ target_forks = TRUE
    /\ gitlab_repos \in {<<>>, <<RepoA>>, <<RepoB>>, <<RepoA, RepoB>>}
    /\ github_repos = githubRepos
    /\ statuses \in {f \in [1..Len(gitlab_repos) ->
                               ActionStatuses(RepoA) \cup ActionStatuses(RepoB)] :
                        \A i \in 1..Len(gitlab_repos) :
                            f[i] \in ActionStatuses(gitlab_repos[i])}
    /\ summary = <<>>
    /\ idx = 0
    /\ calls = <<>>
    /\ err = "None"
    /\ created = {}
    /\ helper = NoHelper

SpecActions == InitActions /\ [][Perform]_vars

----------------------------------------------------------------------------
\* print_summary_table on every status

SummaryStatuses(gitlab_repo) ==
    {mirror_status(gitlab_repo, t, ms, m, r) :
        t \in {NoneTime} \cup 1..MaxTime,
        ms \in {<<>>, <<MirrorElsewhere>>},
        m \in {NoMirror} \cup
              {Mirror(MirrorUrl(Org, <<"a">>), en, isoformat(at), e) :
                  en \in BOOLEAN, at \in 1..MaxTime, e \in {NoneStr, <<"e">>}},
        r \in {NoRepo, GhA, GhB, GhEmpty, GhOther}}

InitSummary ==
    /\ gitlabRepos = <<RepoA, RepoB>>
    /\ githubRepos = <<GhA, GhB, GhEmpty, GhOther>>
    /\ mirrors = [i \in Ids |-> <<>>]
    /\ commits = [i \in Ids |-> NoneTime]
    /\ pc = "summary"
    /\ cmd = "list"
    /\ opts = NoOpts
    /\ target_forks = TRUE
    /\ gitlab_repos \in {<<RepoA>>, <<RepoB>>}
    /\ github_repos = githubRepos
    /\ statuses \in [1..1 -> SummaryStatuses(gitlab_repos[1])]
    /\ summary = <<>>
    /\ idx = 0
    /\ calls = <<>>
    /\ err = "None"
    /\ created = {}
    /\ helper = NoHelper

SpecSummary == InitSummary /\ [][PrintSummaryTable]_vars

----------------------------------------------------------------------------
\* the helpers on every pair of lists

HelperRepos == {GithubRepo(n, NoneStr, FALSE) : n \in {<<"a">>, <<"b">>}}

HelperMirrors ==
    {Mirror(u, TRUE, NoneStr, NoneStr) :
        u \in {NoneStr, <<>>, MirrorUrl(Org, <<"a">>), MirrorUrl(Org, <<"b">>),
               MirrorUrl(<<"x">> \o Org, <<"a">>)}}

InitHelpers ==
    /\ gitlabRepos = <<>>
    /\ githubRepos = <<>>
    /\ mirrors = [i \in Ids |-> <<>>]
    /\ commits = [i \in Ids |-> NoneTime]
    /\ pc = "idle"
    /\ NoRun
    /\ \E fn \in {"mirror_target_exists", "repo_exists"},
          repos \in Distinct(HelperRepos, MaxGithubRepos),
          ms \in SeqsUpTo(HelperMirrors, MaxMirrors),
          slug \in {Org \o Slash \o <<"a">>, <<"a">>} :
          helper = [fn |-> fn, github_repos |-> repos, mirrors |-> ms, slug |-> slug,
                    ret |-> "None"]

NextHelpers == CallMirrorTargetExists \/ CallRepoExists

SpecHelpers == InitHelpers /\ [][NextHelpers]_vars

----------------------------------------------------------------------------
\* What the claims speak of

\* the calls that reached a platform: answered, or refused by it
Sent(c) == c.outcome \in {"ok", "error"}

\* how many calls of an operation a run has sent for a project
SentCount(op, id) ==
    Cardinality({k \in 1..Len(calls) :
                    calls[k].op = op /\ calls[k].repo = id /\ Sent(calls[k])})

\* the loop of perform_actions is through with statuses[i]
Processed(i) == i < idx \/ (i = idx /\ pc \in {"done", "error"})

\* the run is over
Ended == pc \in {"done", "error"}

\* no platform refused a call of the run
NoneRefused == \A k \in 1..Len(calls) : calls[k].outcome # "error"

\* the part of a str after its last "/"
LastSegment(s) ==
    LET slashes == {i \in 1..Len(s) : s[i] = "/"}
    IN  IF slashes = {} THEN s
        ELSE SubSeq(s, (CHOOSE i \in slashes : \A j \in slashes : j <= i) + 1, Len(s))

\* the first repository of a list whose name is the given one, whatever its namespace
FirstNamed(repos, name) ==
    LET hits == {i \in 1..Len(repos) : LastSegment(repos[i].full_name) = name}
    IN  IF hits = {} THEN NoRepo
        ELSE repos[CHOOSE i \in hits : \A j \in hits : i <= j]

----------------------------------------------------------------------------
\* C1: with dry_run set perform_actions sends no call and leaves both platforms as
\* they were, whatever the statuses and force_update_metadata.
C1_DryRunNoMutation ==
    [][opts.dry_run => (UNCHANGED platform /\ calls' = <<>>)]_vars

C1_Witness ==
    /\ pc = "done"
    /\ opts.dry_run
    /\ opts.force_update_metadata
    /\ \E i \in 1..Len(statuses) : needs_repo(statuses[i]) /\ needs_mirror(statuses[i])

\* C2: for a status without repository and without mirror a run that is not a dry
\* run, and that no platform refuses, sends exactly one create_repo call and exactly
\* one create_mirror call for the project, the create_repo call first, and no
\* set_description call.
C2_OneCreateEach ==
    (Ended /\ ~opts.dry_run /\ NoneRefused) =>
        \A i \in 1..Len(statuses) :
            (Processed(i) /\ needs_repo(statuses[i]) /\ needs_mirror(statuses[i])) =>
                LET id == gitlab_repos[i].id
                IN  /\ SentCount("create_repo", id) = 1
                    /\ SentCount("create_mirror", id) = 1
                    /\ SentCount("set_description", id) = 0
                    /\ \A j, k \in 1..Len(calls) :
                          (/\ calls[j].repo = id /\ calls[j].op = "create_repo"
                           /\ calls[k].repo = id /\ calls[k].op = "create_mirror") => j < k

\* C3: for a status with a repository and a mirror, a run that is not a dry run
\* sends no create call, and sends one set_description call, with the rendered
\* template, exactly when the description does not match the template and
\* force_update_metadata is set or the description is empty.
C3_OnlyDescription ==
    \A i \in 1..Len(statuses) :
        (/\ Processed(i)
         /\ has_github_repo(statuses[i])
         /\ statuses[i].has_mirror_configured) =>
            LET id == gitlab_repos[i].id
                due == /\ statuses[i].description_matches_template # "True"
                       /\ \/ opts.force_update_metadata
                          \/ statuses[i].description_is_empty = "True"
            IN  /\ \A k \in 1..Len(calls) :
                      calls[k].repo = id =>
                          /\ calls[k].op = "set_description"
                          /\ calls[k].arg = build_description(gitlab_repos[i])
                          /\ Sent(calls[k])
                /\ SentCount("set_description", id) = IF due THEN 1 ELSE 0

C3_Witness ==
    /\ pc = "done"
    /\ Len(statuses) = 2
    /\ \A i \in 1..2 : has_github_repo(statuses[i]) /\ statuses[i].has_mirror_configured
    /\ statuses[1].description_matches_template = "True"
    /\ statuses[2].description_is_empty = "True"
    /\ ~opts.force_update_metadata
    /\ Len(calls) = 1
    /\ calls[1].outcome = "ok"
    /\ githubRepos # github_repos

\* C4: a project whose repository an earlier run created has has_github_repo in the
\* statuses of the next mirror run, and that run sends no create_repo call for it.
C4_RerunSkipsCreated ==
    \A i \in 1..Len(statuses) :
        (cmd = "mirror" /\ gitlab_repos[i].id \in created) =>
            /\ has_github_repo(statuses[i])
            /\ \A k \in 1..Len(calls) :
                  ~(calls[k].op = "create_repo" /\ calls[k].repo = gitlab_repos[i].id)

\* C5: the list a mirror run resolves the statuses with holds a fork only if
\* --target-forks was given; without it the list is the non-forks in returned order.
C5_ForksOnlyWithFlag ==
    (cmd = "mirror" /\ pc = "summary") =>
        /\ (\E i \in 1..Len(github_repos) : github_repos[i].fork) => opts.target_forks
        /\ ~opts.target_forks =>
              github_repos = SelectSeq(githubRepos, LAMBDA x : ~x.fork)

\* C6: is_up_to_date is unknown when a timestamp is absent; with both present it is
\* true exactly when the last commit is strictly earlier than the last push.
C6_UpToDateTriState ==
    \A i \in 1..Len(statuses) :
        LET push == statuses[i].last_mirror_push_at
            commit == statuses[i].last_source_commit_at
            absent == push = NoneTime \/ commit = NoneTime
            v == is_up_to_date(statuses[i])
        IN  /\ v \in {"None", "True", "False"}
            /\ v = "None" <=> absent
            /\ v = "True" <=> (~absent /\ commit < push)

C6_Witness ==
    /\ pc = "done"
    /\ statuses[1].last_mirror_push_at = statuses[1].last_source_commit_at
    /\ statuses[1].last_mirror_push_at # NoneTime
    /\ statuses[1].has_mirror_enabled
    /\ summary[1].details = "mirror not up to date"

\* C7: mirror_target_exists is true exactly when the URL of some mirror ends with
\* "/" + full_name + ".git" for some repository of the list.
C7_MatchIsSlashSuffix ==
    (helper.fn = "mirror_target_exists" /\ helper.ret # "None") =>
        (helper.ret = "True" <=>
            \E m \in 1..Len(helper.mirrors), r \in 1..Len(helper.github_repos) :
                endswith(helper.mirrors[m].url,
                         Slash \o helper.github_repos[r].full_name \o DotGit))

\* C8: the repository of a status is the first one of the list whose name, the last
\* segment of its full name, is the name of the project; None when there is none.
C8_LookupByName ==
    pc = "summary" =>
        \A i \in 1..Len(statuses) :
            statuses[i].github_repo = FirstNamed(github_repos, gitlab_repos[i].path)

\* C9: a row is 'active' exactly when repository, up to date, configured, enabled
\* and last push succeeded all hold; else '-' exactly when should_have_mirror is
\* false; else 'issues' with the first failing reason in the order: not configured,
\* disabled, not up to date, last push failed, and 'unknown issue' when none fails.
C9_RowClassification ==
    pc = "done" =>
        \A i \in 1..Len(summary) :
            LET st == statuses[i]
                row == summary[i]
                configured == st.has_mirror_configured
                enabled == st.has_mirror_enabled
                fresh == is_up_to_date(st) = "True"
                pushed == st.last_mirror_push_succeeded = "True"
                active == has_github_repo(st) /\ fresh /\ configured /\ enabled /\ pushed
                should == has_github_repo(st) \/ configured
            IN  /\ row.mirror \in {"active", "-", "issues"}
                /\ row.mirror = "active" <=> active
                /\ row.mirror = "-" <=> (~active /\ ~should)
                /\ row.mirror = "issues" =>
                      /\ row.details = "GitHub repo exists but no mirror configured"
                            <=> ~configured
                      /\ row.details = "mirror disabled" <=> (configured /\ ~enabled)
                      /\ row.details = "mirror not up to date"
                            <=> (configured /\ enabled /\ ~fresh)
                      /\ row.details = "errors on last push attempt"
                            <=> (configured /\ enabled /\ fresh /\ ~pushed)
                      /\ row.details = "unknown issue"
                            <=> (configured /\ enabled /\ fresh /\ pushed)

C9_Witness ==
    /\ pc = "done"
    /\ summary[1].mirror = "issues"
    /\ summary[1].details = "errors on last push attempt"
    /\ has_github_repo(statuses[1])

\* C10 as claimed: when the create_repo call for a project fails, the create_mirror
\* call for that project is still attempted afterwards.
C10_MirrorStillAttempted ==
    Ended =>
        \A k \in 1..Len(calls) :
            (calls[k].op = "create_repo" /\ calls[k].outcome = "error") =>
                \E j \in (k + 1)..Len(calls) :
                    calls[j].op = "create_mirror" /\ calls[j].repo = calls[k].repo

\* C10 as amended: when the create_repo call for a project fails, the exception ends
\* the run: it is the last call of the run, and no create_mirror call follows.
C10_FailedCreateEndsRun ==
    \A k \in 1..Len(calls) :
        (calls[k].op = "create_repo" /\ calls[k].outcome = "error") =>
            /\ k = Len(calls)
            /\ pc = "error"
            /\ err = "GithubException"

C10_Witness ==
    /\ pc = "error"
    /\ Len(calls) = 1
    /\ calls[1].op = "create_repo"
    /\ calls[1].outcome = "error"
    /\ needs_mirror(statuses[idx])
    /\ idx < Len(statuses)

\* C11: a call of perform_actions that fails ends the run in an error at once: it is
\* the last call of the run, whatever statuses are still to come; no call is made
\* twice; and the repositories the run has created are still in the organization.
C11_FailFastNoRollback ==
    /\ \A k \in 1..Len(calls) :
          calls[k].outcome # "ok" => (k = Len(calls) /\ pc = "error")
    /\ pc = "error" => (Len(calls) > 0 /\ calls[Len(calls)].repo = gitlab_repos[idx].id)
    /\ \A j, k \in 1..Len(calls) :
          (calls[j].op = calls[k].op /\ calls[j].repo = calls[k].repo) => j = k
    /\ \A k \in 1..Len(calls) :
          \* the calls come in the order of the statuses
          \E i \in 1..idx :
              /\ gitlab_repos[i].id = calls[k].repo
              /\ (calls[k].op = "create_repo" /\ calls[k].outcome = "ok") =>
                    \E r \in 1..Len(githubRepos) :
                        githubRepos[r] = create_repo_data(gitlab_repos[i])

C11_Witness ==
    /\ pc = "error"
    /\ err = "GithubException"
    /\ Len(statuses) = 2
    /\ idx = 2
    /\ Len(calls) = 2
    /\ calls[1].op = "create_repo"
    /\ calls[1].outcome = "ok"
    /\ calls[2].op = "create_repo"
    /\ calls[2].outcome = "error"
    /\ \E r \in 1..Len(githubRepos) : githubRepos[r] = create_repo_data(gitlab_repos[1])

\* C12: when a command has resolved its projects and the mirror matched to the
\* destination of one of them has no last successful push, the resolution completes
\* and that project's status has a mirror configured, no last push time and an
\* unknown is_up_to_date.
C12_NeverPushedResolved ==
    LET r == get_repos_result(target_forks, opts.repo)
    IN  (/\ pc \in {"summary", "error"}
         /\ calls = <<>>
         /\ err # "SystemExit"
         /\ r.raises = "None"
         /\ ~r.none)
        => \A i \in 1..Len(r.gitlab_repos) :
              LET m == get_github_mirror(r.github_repos, mirrors[r.gitlab_repos[i].id])
              IN  (m # NoMirror /\ m.last_successful_update_at = NoneStr)
                  => /\ pc = "summary"
                     /\ gitlab_repos = r.gitlab_repos
                     /\ statuses[i].has_mirror_configured
                     /\ statuses[i].last_mirror_push_at = NoneTime
                     /\ is_up_to_date(statuses[i]) = "None"

\* C13: a list or mirror command without a REPO argument that finds no project on
\* GitLab ends normally, not in an error, and makes no mutating call.
C13_EmptyListingSucceeds ==
    (/\ pc # "idle"
     /\ cmd \in {"list", "mirror"}
     /\ gitlabRepos = <<>>
     /\ ~StrTruthy(opts.repo)
     /\ err # "SystemExit")
    => (pc # "error" /\ err = "None" /\ calls = <<>>)

====
